---- MODULE Spec2Model ----
(***************************************************************************)
(* A model of find_shortest_path.py: main() drives geocoding, network      *)
(* acquisition, two shortest-path computations, summarisation, printing    *)
(* and map rendering.  The third-party libraries (osmnx, networkx, folium) *)
(* are the environment: what they return or raise is drawn with \E.        *)
(*                                                                         *)
(* Quantities that are floats in the program are kept in tenths: a length  *)
(* of 804.7 m is 8047, a travel time of 43.2 s is 432, a console figure    *)
(* printed as " 1.5" is 15.                                                *)
(***************************************************************************)
EXTENDS Integers, Sequences, FiniteSets

\* Geocoded latitudes and longitudes range over -MaxCoord..MaxCoord.
MaxCoord == 1
\* The road network has the nodes 1..MaxNodes.
MaxNodes == 3

----------------------------------------------------------------------------
(* Python values *)

\* A name holding None or a number.
NoneVal == [isNone |-> TRUE, v |-> 0]
Num(n) == [isNone |-> FALSE, v |-> n]

\* A local variable of a function: unbound until assigned.
Unbound == [bound |-> FALSE, v |-> 0]
Bound(n) == [bound |-> TRUE, v |-> n]

\* bool(x) for None or a number: None and 0 are falsy.
Truthy(x) == ~x.isNone /\ x.v # 0

\* A route: None (what ox.shortest_path returns without a path) or a list
\* of node ids.
Absent == [present |-> FALSE, nodes |-> <<>>]
Present(p) == [present |-> TRUE, nodes |-> p]

\* bool(route): None and the empty list are falsy.
RouteTruthy(r) == r.present /\ r.nodes # <<>>

\* One line printed on the console: the function that printed it, what it
\* says, and up to two figures it carries.
Msg(at, text, a, b) == [at |-> at, text |-> text, a |-> a, b |-> b]

----------------------------------------------------------------------------
(* geocode, lines 23-30 *)

\* What ox.geocode(address) does: raises, or returns a (lat, lng) pair.
GeocodeOutcomes ==
    {[raised |-> TRUE, lat |-> 0, lng |-> 0]}
    \cup {[raised |-> FALSE, lat |-> a, lng |-> b] :
            a \in -MaxCoord..MaxCoord, b \in -MaxCoord..MaxCoord}

\* geocode(address): on any exception print it and return (None, None).
geocode(lib) ==
    IF lib.raised
    THEN [x |-> NoneVal, y |-> NoneVal,
          out |-> <<Msg("geocode", "Error", 0, 0)>>]
    ELSE [x |-> Num(lib.lat), y |-> Num(lib.lng), out |-> <<>>]

\* A faulty variant: only the origin's coordinates are tested.
all_origin_only(xs) == Truthy(xs[1]) /\ Truthy(xs[2])

\* all([...]) of line 89: every element is truthy.
all_(xs) == \A i \in DOMAIN xs : Truthy(xs[i])

----------------------------------------------------------------------------
(* getting_osm, lines 39-46: the road network *)

Nodes == 1..MaxNodes

ChainEdges == {<<i, i + 1>> : i \in 1..(MaxNodes - 1)}
BackEdges == {<<i + 1, i>> : i \in 1..(MaxNodes - 1)}
BypassEdges == {<<1, MaxNodes>>}

\* The edge sets ox.graph_from_polygon may return: a one-way street, a
\* two-way street, a one-way street with a fast bypass.
EdgeSets == {ChainEdges, ChainEdges \cup BackEdges, ChainEdges \cup BypassEdges}

\* Lengths of a street segment, in tenths of a metre.
StreetLengths == {5000, 8047}

\* Length of an edge (tenths of a metre): the bypass is 1200.0 m.
EdgeLength(e, street) ==
    IF e \in BypassEdges /\ e \notin ChainEdges THEN 12000 ELSE street

\* ox.add_edge_speeds: km/h imputed by road class.
EdgeSpeed(e) == IF e \in BypassEdges /\ e \notin ChainEdges THEN 100 ELSE 40

\* ox.add_edge_travel_times: length / (speed in m/s), to one decimal.
\* In tenths of a second: len10 * 3.6 / kph, rounded.
EdgeTravelTime(len10, kph) == (len10 * 36 + 5 * kph) \div (10 * kph)

MkGraph(E, street) ==
    [nodes |-> Nodes, edges |-> E,
     length |-> [e \in E |-> EdgeLength(e, street)],
     travel_time |-> [e \in E |->
                        EdgeTravelTime(EdgeLength(e, street), EdgeSpeed(e))]]

Graphs == {MkGraph(E, s) : E \in EdgeSets, s \in StreetLengths}

NoGraph ==
    [nodes |-> {}, edges |-> {}, length |-> <<>>, travel_time |-> <<>>]

----------------------------------------------------------------------------
(* ox.shortest_path and shortest_path, lines 53-60 *)

Distinct(p) == \A i, j \in DOMAIN p : i # j => p[i] # p[j]

\* Whether every step of p is an edge of g.
RouteValid(g, p) ==
    \A i \in 1..(Len(p) - 1) : <<p[i], p[i + 1]>> \in g.edges

\* All non-empty lists of distinct nodes.
NodeLists ==
    {p \in UNION {[1..n -> Nodes] : n \in 1..MaxNodes} : Distinct(p)}

SimplePaths(g, o, d) ==
    {p \in NodeLists : p[1] = o /\ p[Len(p)] = d /\ RouteValid(g, p)}

RECURSIVE AttrSum(_, _, _)
\* Sum of an edge attribute (a function on edges) along p, in tenths.
AttrSum(attr, p, i) ==
    IF i >= Len(p) THEN 0
    ELSE attr[<<p[i], p[i + 1]>>] + AttrSum(attr, p, i + 1)

Weight(g, p, weight) ==
    IF weight = "length" THEN AttrSum(g.length, p, 1)
    ELSE AttrSum(g.travel_time, p, 1)

ShortestPaths(g, o, d, weight) ==
    {p \in SimplePaths(g, o, d) :
        \A q \in SimplePaths(g, o, d) : Weight(g, p, weight) <= Weight(g, q, weight)}

\* What ox.shortest_path(G, orig, dest, weight) does.  With a path it returns
\* a minimum-weight one.  Without one networkx raises NetworkXNoPath, which
\* osmnx either lets through or (later versions) logs, returning None.
OxShortestPath(g, o, d, weight) ==
    IF SimplePaths(g, o, d) = {}
    THEN {[raised |-> TRUE, route |-> Absent],
          [raised |-> FALSE, route |-> Absent]}
    ELSE {[raised |-> FALSE, route |-> Present(p)] :
            p \in ShortestPaths(g, o, d, weight)}

\* shortest_path(G, orig_node_id, dest_node_id, weight): the except branch
\* prints and falls through to "return route" with route never assigned.
shortest_path(lib, o, d) ==
    IF lib.raised
    THEN [raised |-> "UnboundLocalError", route |-> Absent,
          out |-> <<Msg("shortest_path", "No path found", o, d),
                    Msg("shortest_path", "NetworkXNoPath", o, d)>>]
    ELSE [raised |-> "", route |-> lib.route, out |-> <<>>]

----------------------------------------------------------------------------
(* find_length_and_time, lines 62-68 *)

\* int() of a non-negative float kept in tenths: truncation.
int_(x10) == x10 \div 10

\* ox.utils_graph.route_to_gdf(G, route, attr) raises on a route that is
\* None (not subscriptable) or that steps along a pair that is no edge.
Summable(g, r) == r.present /\ RouteValid(g, r.nodes)

\* A faulty variant: the totals are preset to 0 before the try block.
find_length_and_time_zero_default(g, tl, tt) ==
    IF ~Summable(g, tl)
    THEN [raised |-> "", route_length |-> Bound(0), route_time |-> Bound(0),
          out |-> <<Msg("find_length_and_time", "Error", 0, 0)>>]
    ELSE IF ~Summable(g, tt)
    THEN [raised |-> "",
          route_length |-> Bound(int_(AttrSum(g.length, tl.nodes, 1))),
          route_time |-> Bound(0),
          out |-> <<Msg("find_length_and_time", "Error", 0, 0)>>]
    ELSE [raised |-> "",
          route_length |-> Bound(int_(AttrSum(g.length, tl.nodes, 1))),
          route_time |-> Bound(int_(AttrSum(g.travel_time, tt.nodes, 1))),
          out |-> <<>>]

\* find_length_and_time(G, travel_length, travel_time): both totals are
\* assigned inside one try block; the except branch prints and falls through
\* to "return route_length, route_time", which reads a name the failed
\* statement (and any after it) never assigned.
find_length_and_time(g, tl, tt) ==
    IF ~Summable(g, tl)
    THEN [raised |-> "UnboundLocalError",
          route_length |-> Unbound, route_time |-> Unbound,
          out |-> <<Msg("find_length_and_time", "Error", 0, 0)>>]
    ELSE IF ~Summable(g, tt)
    THEN [raised |-> "UnboundLocalError",
          route_length |-> Bound(int_(AttrSum(g.length, tl.nodes, 1))),
          route_time |-> Unbound,
          out |-> <<Msg("find_length_and_time", "Error", 0, 0)>>]
    ELSE [raised |-> "",
          route_length |-> Bound(int_(AttrSum(g.length, tl.nodes, 1))),
          route_time |-> Bound(int_(AttrSum(g.travel_time, tt.nodes, 1))),
          out |-> <<>>]

----------------------------------------------------------------------------
(* The summary line, line 106 *)

\* f"{(route_length * 0.000621): .1f}" in tenths of a mile.  The product is
\* never within float error of a tie below 50000 m, so the nearest tenth of
\* the exact product is what is printed.
MilesTenths(route_length) == (route_length * 621 + 50000) \div 100000

\* The whole-second totals t below 400 with t/60 + 0.5 exactly between two
\* tenths (t % 6 = 3) whose double is printed rounded up by ".1f".
TieRoundsUp ==
    {3, 9, 15, 33, 51, 63, 75, 81, 111, 117, 135, 141, 147, 171, 177, 195,
     201, 207, 219, 237, 249, 255, 267, 279, 297, 309, 315, 327, 339, 357,
     369, 375, 387, 399}

\* f"{(route_time/60 +0.5): .1f}" in tenths of a minute, for route_time < 400.
MinutesTenths(route_time) ==
    LET q == route_time \div 6 + 5
        r == route_time % 6
    IN  IF r < 3 THEN q
        ELSE IF r > 3 THEN q + 1
        ELSE IF route_time \in TieRoundsUp THEN q + 1 ELSE q

----------------------------------------------------------------------------
(* route_plotting, lines 70-78 *)

\* A value interpolated into the popup's text: a route (a list of node ids,
\* or None) or a number.
PyRoute(r) ==
    [type |-> IF r.present THEN "list" ELSE "NoneType", nodes |-> r.nodes,
     num |-> 0]
PyNum(n) == [type |-> "number", nodes |-> <<>>, num |-> n]

NoPopup == [time |-> PyRoute(Absent), length |-> PyRoute(Absent)]

NoLoc == <<NoneVal, NoneVal>>

NoMap ==
    [bound |-> FALSE, overlay |-> Absent, start |-> NoLoc, end |-> NoLoc,
     popup |-> NoPopup]

\* route_plotting(G, origin_loc, destination_loc, travel_length, travel_time).
\* lib_ok: whether osmnx and folium draw a route they are given.  The map m
\* is assigned only inside the if; ox.plot_route_folium is handed
\* travel_length whichever route made the test true; the popup's f-string
\* interpolates the two routes themselves.
route_plotting(g, origin_loc, destination_loc, tl, tt, lib_ok) ==
    IF RouteTruthy(tl) \/ RouteTruthy(tt)
    THEN IF ~tl.present
         THEN [raised |-> "TypeError", m |-> NoMap]
         ELSE IF ~lib_ok
         THEN [raised |-> "RenderError", m |-> NoMap]
         ELSE [raised |-> "",
               m |-> [bound |-> TRUE, overlay |-> tl,
                      start |-> origin_loc, end |-> destination_loc,
                      popup |-> [time |-> PyRoute(tt),
                                 length |-> PyRoute(tl)]]]
    ELSE [raised |-> "UnboundLocalError", m |-> NoMap]

----------------------------------------------------------------------------
(* main, lines 81-112 *)

VARIABLES
    pc,             \* the statement of main() to run next
    orig_x, orig_y, \* geocode(origin_address)
    dest_x, dest_y, \* geocode(destination_address)
    G,              \* the road network
    orig_node_id, dest_node_id,
    travel_length,  \* the route minimising length
    travel_time,    \* the route minimising travel time
    route_length, route_time,
    route_map,
    console,        \* the lines printed so far
    calls,          \* the calls main() has made so far, in order
    saved,          \* whether shortest_path_map.html has been written
    exit_status,    \* the process's exit status; -1 while it runs
    error           \* the exception that ended the process, if any

vars ==
    <<pc, orig_x, orig_y, dest_x, dest_y, G, orig_node_id, dest_node_id,
      travel_length, travel_time, route_length, route_time, route_map,
      console, calls, saved, exit_status, error>>

geo == <<orig_x, orig_y, dest_x, dest_y>>
net == <<G, orig_node_id, dest_node_id>>
routes == <<travel_length, travel_time>>
totals == <<route_length, route_time>>
running == <<exit_status, error>>

Init ==
    /\ pc = "geocode_origin"
    /\ orig_x = NoneVal /\ orig_y = NoneVal
    /\ dest_x = NoneVal /\ dest_y = NoneVal
    /\ G = NoGraph
    /\ orig_node_id = 0 /\ dest_node_id = 0
    /\ travel_length = Absent /\ travel_time = Absent
    /\ route_length = Unbound /\ route_time = Unbound
    /\ route_map = NoMap
    /\ console = <<>>
    /\ calls = <<>>
    /\ saved = FALSE
    /\ exit_status = -1
    /\ error = ""

\* An exception nobody catches: the interpreter prints the traceback and
\* the process ends with status 1.
Uncaught(e) ==
    /\ pc' = "crashed"
    /\ error' = e
    /\ exit_status' = 1

\* sys.exit() without an argument: SystemExit(None), exit status 0.
sys_exit ==
    /\ pc' = "exited"
    /\ exit_status' = 0
    /\ error' = error

\* A faulty variant: main() gives up as soon as the origin fails to geocode.
MainGeocodeOrigin_abort_early ==
    /\ pc = "geocode_origin"
    /\ \E lib \in GeocodeOutcomes :
        LET r == geocode(lib) IN
        /\ orig_x' = r.x /\ orig_y' = r.y
        /\ calls' = Append(calls, "geocode(origin_address)")
        /\ IF lib.raised
           THEN /\ console' = console \o r.out
                     \o <<Msg("main", "Unable to geocode", 0, 0)>>
                /\ sys_exit
           ELSE /\ console' = console \o r.out
                /\ pc' = "geocode_destination"
                /\ UNCHANGED running
    /\ UNCHANGED <<dest_x, dest_y, net, routes, totals, route_map, saved>>

\* Lines 83 and 86: orig_x, orig_y = geocode(origin_address).
MainGeocodeOrigin ==
    /\ pc = "geocode_origin"
    /\ \E lib \in GeocodeOutcomes :
        LET r == geocode(lib) IN
        /\ orig_x' = r.x /\ orig_y' = r.y
        /\ console' = console \o r.out
    /\ calls' = Append(calls, "geocode(origin_address)")
    /\ pc' = "geocode_destination"
    /\ UNCHANGED <<dest_x, dest_y, net, routes, totals, route_map, saved,
                   running>>

\* Lines 84 and 87: dest_x, dest_y = geocode(destination_address).
MainGeocodeDestination ==
    /\ pc = "geocode_destination"
    /\ \E lib \in GeocodeOutcomes :
        LET r == geocode(lib) IN
        /\ dest_x' = r.x /\ dest_y' = r.y
        /\ console' = console \o r.out
    /\ calls' = Append(calls, "geocode(destination_address)")
    /\ pc' = "check_geocoding"
    /\ UNCHANGED <<orig_x, orig_y, net, routes, totals, route_map, saved,
                   running>>

\* Lines 89-93: if not all([orig_x, orig_y, dest_x, dest_y]): print, exit.
MainCheckGeocoding ==
    /\ pc = "check_geocoding"
    /\ IF ~all_(<<orig_x, orig_y, dest_x, dest_y>>)
       THEN /\ console' = Append(console, Msg("main", "Unable to geocode", 0, 0))
            /\ sys_exit
       ELSE /\ pc' = "getting_osm"
            /\ UNCHANGED <<console, running>>
    /\ UNCHANGED <<geo, net, routes, totals, route_map, calls, saved>>

\* Lines 95-97: bbox = boundary_constructor(...); G, roads = getting_osm(...).
\* ox.graph_from_polygon returns a network or raises (service unreachable,
\* no roads in the box); getting_osm catches nothing.
MainGettingOsm ==
    /\ pc = "getting_osm"
    /\ calls' = calls \o <<"boundary_constructor", "getting_osm">>
    /\ \E ok \in BOOLEAN :
        IF ok
        THEN /\ \E g \in Graphs : G' = g
             /\ pc' = "find_closest_node"
             /\ UNCHANGED running
        ELSE /\ G' = G
             /\ Uncaught("OsmError")
    /\ UNCHANGED <<geo, orig_node_id, dest_node_id, routes, totals, route_map,
                   console, saved>>

\* Lines 99-100: ox.distance.nearest_nodes snaps each point to a node of G.
MainFindClosestNode ==
    /\ pc = "find_closest_node"
    /\ \E o \in G.nodes, d \in G.nodes :
        /\ orig_node_id' = o
        /\ dest_node_id' = d
    /\ calls' = calls \o <<"find_closest_node", "find_closest_node">>
    /\ pc' = "shortest_path_length"
    /\ UNCHANGED <<geo, G, routes, totals, route_map, console, saved, running>>

\* Line 102: travel_length = shortest_path(G, ..., weight='length').
MainShortestPathLength ==
    /\ pc = "shortest_path_length"
    /\ calls' = Append(calls, "shortest_path(length)")
    /\ \E lib \in OxShortestPath(G, orig_node_id, dest_node_id, "length") :
        LET r == shortest_path(lib, orig_node_id, dest_node_id) IN
        /\ console' = console \o r.out
        /\ IF r.raised # ""
           THEN /\ Uncaught(r.raised)
                /\ UNCHANGED travel_length
           ELSE /\ travel_length' = r.route
                /\ pc' = "shortest_path_travel_time"
                /\ UNCHANGED running
    /\ UNCHANGED <<geo, net, travel_time, totals, route_map, saved>>

\* Line 103: travel_time = shortest_path(G, ..., weight='travel_time').
MainShortestPathTravelTime ==
    /\ pc = "shortest_path_travel_time"
    /\ calls' = Append(calls, "shortest_path(travel_time)")
    /\ \E lib \in OxShortestPath(G, orig_node_id, dest_node_id, "travel_time") :
        LET r == shortest_path(lib, orig_node_id, dest_node_id) IN
        /\ console' = console \o r.out
        /\ IF r.raised # ""
           THEN /\ Uncaught(r.raised)
                /\ UNCHANGED travel_time
           ELSE /\ travel_time' = r.route
                /\ pc' = "find_length_and_time"
                /\ UNCHANGED running
    /\ UNCHANGED <<geo, net, travel_length, totals, route_map, saved>>

\* Line 105: route_length, route_time = find_length_and_time(G, ...).
MainFindLengthAndTime ==
    /\ pc = "find_length_and_time"
    /\ calls' = Append(calls, "find_length_and_time")
    /\ LET r == find_length_and_time(G, travel_length, travel_time) IN
        /\ console' = console \o r.out
        /\ IF r.raised # ""
           THEN /\ Uncaught(r.raised)
                /\ UNCHANGED totals
           ELSE /\ route_length' = r.route_length
                /\ route_time' = r.route_time
                /\ pc' = "print_summary"
                /\ UNCHANGED running
    /\ UNCHANGED <<geo, net, routes, route_map, saved>>

\* A faulty variant: the summary is not printed before the map is drawn.
MainPrintSummary_not_yet ==
    /\ pc = "print_summary"
    /\ pc' = "route_plotting"
    /\ UNCHANGED <<geo, net, routes, totals, route_map, console, calls, saved,
                   running>>

\* Line 106: print(f"Shortest travel length:{...: .1f} miles and takes
\* {...: .1f} minutes").
MainPrintSummary ==
    /\ pc = "print_summary"
    /\ console' = Append(console,
                         Msg("main", "summary", MilesTenths(route_length.v),
                             MinutesTenths(route_time.v)))
    /\ pc' = "route_plotting"
    /\ UNCHANGED <<geo, net, routes, totals, route_map, calls, saved, running>>

\* Line 108: route_map = route_plotting(G, origin_loc, destination_loc, ...).
MainRoutePlotting ==
    /\ pc = "route_plotting"
    /\ calls' = Append(calls, "route_plotting")
    /\ \E lib_ok \in BOOLEAN :
        LET r == route_plotting(G, <<orig_x, orig_y>>, <<dest_x, dest_y>>,
                                travel_length, travel_time, lib_ok) IN
        IF r.raised # ""
        THEN /\ Uncaught(r.raised)
             /\ UNCHANGED route_map
        ELSE /\ route_map' = r.m
             /\ pc' = "save"
             /\ UNCHANGED running
    /\ UNCHANGED <<geo, net, routes, totals, console, saved>>

\* Line 110: route_map.save('shortest_path_map.html'); the write may fail.
MainSave ==
    /\ pc = "save"
    /\ calls' = Append(calls, "route_map.save")
    /\ \E ok \in BOOLEAN :
        IF ok
        THEN /\ saved' = TRUE
             /\ pc' = "print_done"
             /\ UNCHANGED running
        ELSE /\ saved' = saved
             /\ Uncaught("OSError")
    /\ UNCHANGED <<geo, net, routes, totals, route_map, console>>

\* Lines 111-112: print('Done'); return route_map.  The script then ends.
MainDone ==
    /\ pc = "print_done"
    /\ console' = Append(console, Msg("main", "Done", 0, 0))
    /\ pc' = "returned"
    /\ exit_status' = 0
    /\ UNCHANGED <<geo, net, routes, totals, route_map, calls, saved, error>>

Next ==
    \/ MainGeocodeOrigin
    \/ MainGeocodeDestination
    \/ MainCheckGeocoding
    \/ MainGettingOsm
    \/ MainFindClosestNode
    \/ MainShortestPathLength
    \/ MainShortestPathTravelTime
    \/ MainFindLengthAndTime
    \/ MainPrintSummary
    \/ MainRoutePlotting
    \/ MainSave
    \/ MainDone

Spec == Init /\ [][Next]_vars

----------------------------------------------------------------------------
(* find_length_and_time and route_plotting on every pair of routes *)

\* The routes a caller may hand over: None, or any list of distinct nodes.
RouteInputs == {Absent} \cup {Present(p) : p \in NodeLists}

\* main() about to run line 105, with any network and any two routes.
InitSummarize ==
    /\ pc = "find_length_and_time"
    /\ orig_x = Num(1) /\ orig_y = Num(1)
    /\ dest_x = Num(1) /\ dest_y = Num(-1)
    /\ G \in Graphs
    /\ orig_node_id = 1 /\ dest_node_id = MaxNodes
    /\ travel_length \in RouteInputs /\ travel_time \in RouteInputs
    /\ route_length = Unbound /\ route_time = Unbound
    /\ route_map = NoMap
    /\ console = <<>>
    /\ calls = <<"shortest_path(length)", "shortest_path(travel_time)">>
    /\ saved = FALSE
    /\ exit_status = -1
    /\ error = ""

NextSummarize ==
    \/ MainFindLengthAndTime
    \/ MainPrintSummary

SpecSummarize == InitSummarize /\ [][NextSummarize]_vars

\* main() about to run line 108, with any network and any two routes.
InitPlot ==
    /\ pc = "route_plotting"
    /\ orig_x = Num(1) /\ orig_y = Num(1)
    /\ dest_x = Num(1) /\ dest_y = Num(-1)
    /\ G \in Graphs
    /\ orig_node_id = 1 /\ dest_node_id = MaxNodes
    /\ travel_length \in RouteInputs /\ travel_time \in RouteInputs
    /\ route_length = find_length_and_time(G, travel_length, travel_time).route_length
    /\ route_time = find_length_and_time(G, travel_length, travel_time).route_time
    /\ route_map = NoMap
    /\ console = <<>>
    /\ calls = <<"find_length_and_time">>
    /\ saved = FALSE
    /\ exit_status = -1
    /\ error = ""

NextPlot ==
    \/ MainRoutePlotting
    \/ MainSave
    \/ MainDone

SpecPlot == InitPlot /\ [][NextPlot]_vars

----------------------------------------------------------------------------
(* Properties *)

Called(c) == \E i \in DOMAIN calls : calls[i] = c

Printed(at, text) ==
    \E i \in DOMAIN console : console[i].at = at /\ console[i].text = text

\* geocode() was called for the address and returned (None, None).
OriginFailed ==
    Called("geocode(origin_address)") /\ orig_x.isNone /\ orig_y.isNone
DestinationFailed ==
    Called("geocode(destination_address)") /\ dest_x.isNone /\ dest_y.isNone

\* C1: once geocode() has returned (None, None) for the origin or for the
\* destination, getting_osm is never called and the map file is never
\* saved: main() only geocodes the other address, tests, and exits.
C1_FailedGeocodeStopsBeforeNetwork ==
    (OriginFailed \/ DestinationFailed) =>
        /\ ~Called("getting_osm")
        /\ ~Called("route_map.save")
        /\ ~saved
        /\ pc \in {"geocode_destination", "check_geocoding", "exited"}

\* C1's case: the origin geocoded to usable coordinates, the destination
\* did not, and the run has ended.
C1_Witness ==
    /\ pc = "exited"
    /\ DestinationFailed
    /\ Truthy(orig_x) /\ Truthy(orig_y)

\* C2: when shortest_path() has printed its "No path found" diagnostic, it
\* returns to main(): the process is not ended by that shortest_path() call,
\* so the other variant is still attempted.
C2_NoPathReturnsToMain ==
    Printed("shortest_path", "No path found") =>
        ~(/\ pc = "crashed"
          /\ calls[Len(calls)] \in {"shortest_path(length)",
                                    "shortest_path(travel_time)"})

\* C3: for every combination of present and absent routes, route_plotting()
\* returns a map that main() can save; it raises only when the library fails
\* to draw a route it was given.
C3_RoutePlottingAlwaysReturnsMap ==
    (Called("route_plotting") /\ error # "RenderError") => route_map.bound

\* C4: when the run aborts because an address failed to geocode, the exit
\* status is not 0.
C4_AbortExitsNonZero ==
    (pc = "exited" /\ Printed("main", "Unable to geocode")) => exit_status # 0

\* C5: once find_length_and_time() has been called with the length route or
\* the travel-time route absent, the failure has been printed, main() holds no
\* totals, the process has ended with the uncaught error, and no summary line
\* was printed.
C5_AbsentRouteNeverSummarized ==
    (/\ Called("find_length_and_time")
     /\ (~travel_length.present \/ ~travel_time.present)) =>
        /\ Printed("find_length_and_time", "Error")
        /\ pc = "crashed" /\ error # "" /\ exit_status = 1
        /\ ~route_length.bound /\ ~route_time.bound
        /\ ~Printed("main", "summary")

\* C5's case: only the second route (travel time) is absent, the first can be
\* summed, and the call has been made.
C5_Witness ==
    /\ Called("find_length_and_time")
    /\ Summable(G, travel_length)
    /\ ~travel_time.present
    /\ pc = "crashed"

\* n / d rounded half-up to a whole number, n >= 0.
RoundHalfUp(n, d) == (2 * n + d) \div (2 * d)

\* C6: every summary line reports, in tenths of a minute, route_time / 60
\* rounded half-up to one decimal (90 seconds: 1.5 minutes).
C6_MinutesAreSecondsOverSixty ==
    \A i \in DOMAIN console :
        console[i].text = "summary" =>
            console[i].b = RoundHalfUp(route_time.v * 10, 60)

\* The least whole number >= n / d, n >= 0.
Ceil(n, d) == (n + d - 1) \div d

\* C7: the popup of the rendered map carries the summary figures: the total
\* length converted to miles and the total time in minutes, rounded up.
C7_PopupCarriesSummary ==
    route_map.bound =>
        /\ route_map.popup.length = PyNum(MilesTenths(route_length.v))
        /\ route_map.popup.time = PyNum(Ceil(route_time.v, 60))

\* C8: whenever route_plotting() has been called, the summary line is
\* already on the console, whatever rendering and saving then do.
C8_SummaryPrintedBeforeRendering ==
    Called("route_plotting") => Printed("main", "summary")

\* C8's case: both routes were summarised and rendering then failed.
C8_Witness ==
    /\ pc = "crashed"
    /\ error = "RenderError"
    /\ route_length.bound /\ route_time.bound
    /\ Printed("main", "summary")

\* C9: when the abort message is printed, geocode() has been called for the
\* origin and for the destination, the message is the last line printed, and
\* no network fetch was made.
C9_AbortAfterBothGeocodes ==
    Printed("main", "Unable to geocode") =>
        /\ calls = <<"geocode(origin_address)", "geocode(destination_address)">>
        /\ console[Len(console)].text = "Unable to geocode"
        /\ pc = "exited"

\* C9's case: the origin failed, the destination was still geocoded (and
\* resolved), and then the run aborted.
C9_Witness ==
    /\ pc = "exited"
    /\ OriginFailed
    /\ Called("geocode(destination_address)")
    /\ Truthy(dest_x) /\ Truthy(dest_y)

\* C10: main() takes the early exit only when a geocode() call returned
\* (None, None).
C10_AbortOnlyOnFailedGeocode ==
    pc = "exited" => (OriginFailed \/ DestinationFailed)

====
